---- MODULE Spec2Model ----
(***************************************************************************)
(* Model of the streaming encryption core of the crypto crate:             *)
(*   crates/crypto/src/file/encrypt.rs   StreamEncryptor (the block pump)  *)
(*   crates/crypto/src/utils/stream.rs   StreamEncryption/StreamDecryption *)
(*                                                                         *)
(* Byte strings are modelled as sequences of runs.  A run is either a      *)
(* range of the plaintext source ("pt", offset, length) or a range of zero *)
(* bytes ("zero", 0, length).  The plaintext itself is arbitrary, so a     *)
(* "pt" run stands for bytes that are not known to be zero.                *)
(*                                                                         *)
(* The AEAD (aead::stream LE31) is modelled as an ideal authenticated      *)
(* cipher: a ciphertext block is the record of the position, the last flag *)
(* and the payload it was sealed from, it is 16 bytes longer than its      *)
(* payload, and it opens only as a whole, at the same position and flag.   *)
(***************************************************************************)
EXTENDS Integers, Sequences, FiniteSets, TLC

\* primitives::BLOCK_SIZE, 1 MiB
BLOCK_SIZE == 1048576

\* the AEAD tag length (the literal 16 of stream.rs)
AEAD_TAG_LEN == 16

\* number of calls made on one pump / stream object in a behaviour
MaxCalls == 4

Min(a, b) == IF a < b THEN a ELSE b

\* ---------------------------------------------------------------------
\* byte strings as runs
\* ---------------------------------------------------------------------
Pt(off, len) == IF len = 0 THEN << >> ELSE << [src |-> "pt", off |-> off, len |-> len] >>

Zeros(len) == IF len = 0 THEN << >> ELSE << [src |-> "zero", off |-> 0, len |-> len] >>

RECURSIVE ByteLen(_)
ByteLen(bs) == IF bs = << >> THEN 0 ELSE Head(bs).len + ByteLen(Tail(bs))

\* the first n bytes of a byte string
RECURSIVE Take(_, _)
Take(bs, n) ==
    IF n = 0 \/ bs = << >> THEN << >>
    ELSE IF Head(bs).len <= n
         THEN << Head(bs) >> \o Take(Tail(bs), n - Head(bs).len)
         ELSE << [Head(bs) EXCEPT !.len = n] >>

HoldsPlaintext(bs) == \E i \in 1..Len(bs) : bs[i].src = "pt"

\* ---------------------------------------------------------------------
\* u32 -> f32 conversion and the step count
\* ---------------------------------------------------------------------
RECURSIVE Pow2(_)
Pow2(k) == IF k = 0 THEN 1 ELSE 2 * Pow2(k - 1)

\* number of bits of n (0 for 0)
RECURSIVE BitLen(_)
BitLen(n) == IF n = 0 THEN 0 ELSE 1 + BitLen(n \div 2)

\* `n as f32`: round to a 24-bit significand, ties to even
AsF32(n) ==
    IF BitLen(n) <= 24 THEN n
    ELSE LET ulp  == Pow2(BitLen(n) - 24)
             q    == n \div ulp
             r    == n % ulp
             half == ulp \div 2
         IN  IF r > half \/ (r = half /\ q % 2 = 1)
             THEN (q + 1) * ulp
             ELSE q * ulp

\* exact integer ceiling of a / b
CeilDiv(a, b) == (a + b - 1) \div b

\* (file_size as f32 / BLOCK_SIZE as f32).ceil() as i64
\* BLOCK_SIZE is a power of two below 2^24: it converts exactly and the
\* f32 division by it is exact, so only the conversion of file_size rounds.
TotalStep(file_size) == CeilDiv(AsF32(file_size), BLOCK_SIZE)

\* ---------------------------------------------------------------------
\* the AEAD stream
\* ---------------------------------------------------------------------
\* EncryptorLE31::encrypt_next / encrypt_last on a payload
\* under the key and nonce of the stream object
Seal(position, last, payload) ==
    [key |-> "key", position |-> position, last |-> last, payload |-> payload]

CtLen(block) == ByteLen(block.payload) + AEAD_TAG_LEN

\* ---------------------------------------------------------------------
\* state
\* ---------------------------------------------------------------------
VARIABLES
    file_size,      \* the declared size passed to new
    total_step,     \* StreamEncryptor.total_step
    current_step,   \* StreamEncryptor.current_step
    reader_len,     \* number of bytes the reader holds
    reader_pos,     \* the reader's position
    position,       \* the STREAM counter of stream_object
    written,        \* the writer: one entry per write call that returned Ok
    read_buffer,    \* read_buffer as it is when the last call returned
    pc,             \* "ready", "done" (pump / stream object consumed), "decrypted"
    calls,          \* number of calls made
    lastOp,         \* the last call
    ret,            \* what the last call returned
    read_ok,        \* the read of the last call succeeded
    nextCalls,      \* number of encrypt_next calls made on stream_object
    lastCalls,      \* number of encrypt_last calls made on stream_object
    okSteps,        \* number of step calls that returned Ok
    proto,          \* every call so far was the one get_step_type names, in a
                    \* fault-free environment (no Io, no AEAD failure, the
                    \* writer accepted every byte offered)
    dec_written,    \* the writer of decrypt_streams
    dec_ret,        \* what decrypt_streams returned
    dec_read,       \* read_count of decrypt_streams (-1 before the call)
    dec_call,       \* the AEAD call decrypt_streams made: "none", "next", "last"
    header,         \* a FileHeader
    header_bytes,   \* what FileHeader::serialize returned for it (<< >> before)
    keyslot_bytes,  \* what FileKeyslot::serialize returned for each of its keyslots
    other,          \* a second FileHeader
    other_bytes,    \* what FileHeader::serialize returned for it (<< >> before)
    init_algorithm, \* the algorithm passed to StreamEncryption / StreamDecryption::init
    init_nonce_len, \* the length of the nonce passed to init
    init_ret,       \* what init returned
    init_obj        \* the stream object init constructed (<< >>: none)

vars == << file_size, total_step, current_step, reader_len, reader_pos, position,
           written, read_buffer, pc, calls, lastOp, ret, read_ok, nextCalls,
           lastCalls, okSteps, proto, dec_written, dec_ret, dec_read, dec_call,
           header, header_bytes, keyslot_bytes, other, other_bytes,
           init_algorithm, init_nonce_len, init_ret, init_obj >>

\* the variables of the stream functions and the pump
streamVars == << file_size, total_step, current_step, reader_len, reader_pos, position,
                 written, read_buffer, pc, calls, lastOp, ret, read_ok, nextCalls,
                 lastCalls, okSteps, proto, dec_written, dec_ret, dec_read, dec_call >>

\* the variables of the header codec
headerVars == << header, header_bytes, keyslot_bytes, other, other_bytes >>

\* the variables of StreamEncryption::init / StreamDecryption::init
initVars == << init_algorithm, init_nonce_len, init_ret, init_obj >>

\* no header at hand: an empty V1 header, not serialized
NoHeader ==
    [version |-> "V1", algorithm |-> "XChaCha20Poly1305", mode |-> "Stream",
     nonce |-> << >>, keyslots |-> << >>]

HeaderIdle ==
    /\ header = NoHeader
    /\ header_bytes = << >>
    /\ keyslot_bytes = << >>
    /\ other = NoHeader
    /\ other_bytes = << >>

\* no init call at hand
InitIdle ==
    /\ init_algorithm = "XChaCha20Poly1305"
    /\ init_nonce_len = 0
    /\ init_ret = "none"
    /\ init_obj = << >>

\* declared sizes and reader contents tried
FileSizes ==
    { 0, 1, BLOCK_SIZE - 1, BLOCK_SIZE, BLOCK_SIZE + 1, 2 * BLOCK_SIZE + 17,
      16777216, 16777217, 16777219 }

ReaderLens == { 0, 1, BLOCK_SIZE - 1, BLOCK_SIZE, BLOCK_SIZE + 1, 2 * BLOCK_SIZE + 17 }

\* byte counts a writer may report for a write of n bytes
Accepts(n) == { k \in { 0, n - AEAD_TAG_LEN, n } : k >= 0 }

\* StreamEncryptor::new
Init ==
    /\ file_size \in FileSizes
    /\ total_step = TotalStep(file_size)
    /\ current_step = 0
    /\ reader_len \in ReaderLens \cup { file_size }
    /\ reader_pos = 0
    /\ position = 0
    /\ written = << >>
    /\ read_buffer = << >>
    /\ pc = "ready"
    /\ calls = 0
    /\ lastOp = "new"
    /\ ret = "none"
    /\ read_ok = TRUE
    /\ nextCalls = 0
    /\ lastCalls = 0
    /\ okSteps = 0
    /\ proto = TRUE
    /\ dec_written = << >>
    /\ dec_ret = "none"
    /\ dec_read = -1
    /\ dec_call = "none"
    /\ HeaderIdle
    /\ InitIdle

\* StreamEncryptor::get_step_type
get_step_type == IF current_step < total_step THEN "Normal" ELSE "Final"

\* reader.read(&mut read_buffer) on a buffer of BLOCK_SIZE bytes
ReadCount == Min(reader_len - reader_pos, BLOCK_SIZE)

\* read_buffer after the read
Filled(read_count) == Pt(reader_pos, read_count) \o Zeros(BLOCK_SIZE - read_count)

\* ---------------------------------------------------------------------
\* StreamEncryptor::step
\* ---------------------------------------------------------------------
\* the condition under which step encrypts a block
StepGuardNoBound(read_count, cur, tot) == read_count = BLOCK_SIZE
StepGuardNoLength(read_count, cur, tot) == cur < tot
StepGuard(read_count, cur, tot) == read_count = BLOCK_SIZE /\ cur < tot

\* the write-count check of step and finalize
WriteMismatch(read_count, write_count) == read_count # write_count

\* what one call of step does, given what the environment does:
\* readOk (the read succeeds), aeadOk (encrypt_next succeeds), writeOk (the
\* write succeeds) and n (the byte count the write reports)
StepOutcome(readOk, aeadOk, writeOk, n) ==
    LET read_count == ReadCount
        buf        == Filled(read_count)
        block      == Seal(position, FALSE, buf)
        same       == [ ret |-> "Io", reader_pos |-> reader_pos, position |-> position,
                        written |-> written, read_buffer |-> Zeros(BLOCK_SIZE),
                        current_step |-> current_step, nextCalls |-> nextCalls,
                        benign |-> FALSE ]
        afterRead  == [ same EXCEPT !.reader_pos = reader_pos + read_count ]
    IN  IF ~readOk THEN same
        ELSE IF StepGuard(read_count, current_step, total_step)
        THEN IF ~aeadOk
             THEN [ afterRead EXCEPT !.ret = "Encrypt", !.read_buffer = buf,
                                     !.nextCalls = nextCalls + 1 ]
             ELSE IF ~writeOk
             THEN [ afterRead EXCEPT !.ret = "Io", !.position = position + 1,
                                     !.nextCalls = nextCalls + 1 ]
             ELSE IF WriteMismatch(read_count, n)
             THEN [ afterRead EXCEPT !.ret = "WriteMismatch", !.position = position + 1,
                                     !.nextCalls = nextCalls + 1,
                                     !.written = Append(written, [data |-> block, accepted |-> n]),
                                     !.benign = (n = CtLen(block)) ]
             ELSE [ afterRead EXCEPT !.ret = "Ok", !.position = position + 1,
                                     !.nextCalls = nextCalls + 1,
                                     !.written = Append(written, [data |-> block, accepted |-> n]),
                                     !.current_step = current_step + 1,
                                     !.benign = (n = CtLen(block)) ]
        ELSE [ afterRead EXCEPT !.ret = "IncorrectStep", !.read_buffer = buf,
                                !.benign = TRUE ]

Step ==
    /\ pc = "ready"
    /\ calls < MaxCalls
    /\ \E readOk \in BOOLEAN, aeadOk \in BOOLEAN, writeOk \in BOOLEAN,
          n \in Accepts(BLOCK_SIZE + AEAD_TAG_LEN) :
          LET o == StepOutcome(readOk, aeadOk, writeOk, n)
          IN  /\ ret' = o.ret
              /\ read_ok' = readOk
              /\ reader_pos' = o.reader_pos
              /\ position' = o.position
              /\ written' = o.written
              /\ read_buffer' = o.read_buffer
              /\ current_step' = o.current_step
              /\ nextCalls' = o.nextCalls
              /\ okSteps' = IF o.ret = "Ok" THEN okSteps + 1 ELSE okSteps
              /\ proto' = (proto /\ get_step_type = "Normal" /\ o.benign)
    /\ calls' = calls + 1
    /\ lastOp' = "step"
    /\ UNCHANGED << file_size, total_step, reader_len, pc, lastCalls, dec_written, dec_ret,
                    dec_read, dec_call >>
    /\ UNCHANGED << headerVars, initVars >>

\* ---------------------------------------------------------------------
\* StreamEncryptor::finalize
\* ---------------------------------------------------------------------
\* the condition under which finalize encrypts the last block
FinalizeGuardNoBound(read_count, cur, tot) == read_count # BLOCK_SIZE
FinalizeGuard(read_count, cur, tot) == read_count # BLOCK_SIZE /\ cur = tot

\* the payload finalize hands to encrypt_last: read_buffer.as_ref()
FinalPayload(buf, read_count) == buf

FinalizeOutcome(readOk, aeadOk, writeOk, n) ==
    LET read_count == ReadCount
        buf        == Filled(read_count)
        block      == Seal(position, TRUE, FinalPayload(buf, read_count))
        same       == [ ret |-> "Io", reader_pos |-> reader_pos,
                        written |-> written, read_buffer |-> Zeros(BLOCK_SIZE),
                        lastCalls |-> lastCalls, benign |-> FALSE ]
        afterRead  == [ same EXCEPT !.reader_pos = reader_pos + read_count ]
    IN  IF ~readOk THEN same
        ELSE IF FinalizeGuard(read_count, current_step, total_step)
        THEN IF ~aeadOk
             THEN [ afterRead EXCEPT !.ret = "Encrypt", !.read_buffer = buf,
                                     !.lastCalls = lastCalls + 1 ]
             ELSE IF ~writeOk
             THEN [ afterRead EXCEPT !.ret = "Io", !.lastCalls = lastCalls + 1 ]
             ELSE [ afterRead EXCEPT !.ret = IF WriteMismatch(read_count, n)
                                             THEN "WriteMismatch" ELSE "Ok",
                                     !.lastCalls = lastCalls + 1,
                                     !.written = Append(written, [data |-> block, accepted |-> n]),
                                     !.benign = (n = CtLen(block)) ]
        ELSE [ afterRead EXCEPT !.ret = "IncorrectStep", !.read_buffer = buf,
                                !.benign = TRUE ]

\* finalize takes self by value: the pump is gone whatever it returns
AfterFinalizeBorrowed == "ready"
AfterFinalize == "done"

Finalize ==
    /\ pc = "ready"
    /\ calls < MaxCalls
    /\ \E readOk \in BOOLEAN, aeadOk \in BOOLEAN, writeOk \in BOOLEAN,
          n \in Accepts(BLOCK_SIZE + AEAD_TAG_LEN) :
          LET o == FinalizeOutcome(readOk, aeadOk, writeOk, n)
          IN  /\ ret' = o.ret
              /\ read_ok' = readOk
              /\ reader_pos' = o.reader_pos
              /\ written' = o.written
              /\ read_buffer' = o.read_buffer
              /\ lastCalls' = o.lastCalls
              /\ proto' = (proto /\ get_step_type = "Final" /\ o.benign)
    /\ calls' = calls + 1
    /\ lastOp' = "finalize"
    /\ pc' = AfterFinalize
    /\ UNCHANGED << file_size, total_step, current_step, reader_len, position,
                    nextCalls, okSteps, dec_written, dec_ret, dec_read, dec_call >>
    /\ UNCHANGED << headerVars, initVars >>

\* ---------------------------------------------------------------------
\* StreamEncryption::encrypt_streams
\* ---------------------------------------------------------------------
\* the write-count check of encrypt_streams
EncWriteMismatch(read_count, write_count) == read_count # write_count + 16

\* the payload encrypt_streams hands to encrypt_last: read_buffer.as_ref()
EncLastPayload(buf, read_count) == buf

\* byte counts the writer of encrypt_streams may report for a block of n bytes
EncAccepts(n, read_count) == Accepts(n) \cup { k \in { read_count - 16 } : k >= 0 }

EncryptStreamsOutcome(readOk, aeadOk, writeOk, n, flushOk) ==
    LET read_count == ReadCount
        buf        == Filled(read_count)
        isNext     == read_count = BLOCK_SIZE
        block      == IF isNext THEN Seal(position, FALSE, buf)
                      ELSE Seal(position, TRUE, EncLastPayload(buf, read_count))
        same       == [ ret |-> "Io", reader_pos |-> reader_pos, position |-> position,
                        written |-> written, read_buffer |-> Zeros(BLOCK_SIZE),
                        nextCalls |-> nextCalls, lastCalls |-> lastCalls,
                        benign |-> FALSE ]
        afterAead  == [ same EXCEPT !.reader_pos = reader_pos + read_count,
                                    !.nextCalls = IF isNext THEN nextCalls + 1 ELSE nextCalls,
                                    !.lastCalls = IF isNext THEN lastCalls ELSE lastCalls + 1 ]
        afterWrite == [ afterAead EXCEPT !.position = IF isNext THEN position + 1 ELSE position,
                                         !.written = Append(written, [data |-> block, accepted |-> n]) ]
    IN  IF ~readOk THEN same
        ELSE IF ~aeadOk THEN [ afterAead EXCEPT !.ret = "Encrypt", !.read_buffer = buf ]
        ELSE IF ~writeOk
        THEN [ afterAead EXCEPT !.position = IF isNext THEN position + 1 ELSE position ]
        ELSE IF EncWriteMismatch(read_count, n)
        THEN [ afterWrite EXCEPT !.ret = "WriteMismatch", !.benign = (n = CtLen(block)) ]
        ELSE IF ~flushOk THEN afterWrite
        ELSE [ afterWrite EXCEPT !.ret = "Ok", !.benign = (n = CtLen(block)) ]

\* encrypt_streams takes the stream object by value and is applied to a
\* fresh one
EncryptStreams ==
    /\ pc = "ready"
    /\ calls = 0
    /\ \E readOk \in BOOLEAN, aeadOk \in BOOLEAN, writeOk \in BOOLEAN,
          n \in EncAccepts(BLOCK_SIZE + AEAD_TAG_LEN, ReadCount), flushOk \in BOOLEAN :
          LET o == EncryptStreamsOutcome(readOk, aeadOk, writeOk, n, flushOk)
          IN  /\ ret' = o.ret
              /\ read_ok' = readOk
              /\ reader_pos' = o.reader_pos
              /\ position' = o.position
              /\ written' = o.written
              /\ read_buffer' = o.read_buffer
              /\ nextCalls' = o.nextCalls
              /\ lastCalls' = o.lastCalls
              /\ proto' = (proto /\ o.benign)
    /\ calls' = calls + 1
    /\ lastOp' = "encrypt_streams"
    /\ pc' = "done"
    /\ UNCHANGED << file_size, total_step, current_step, reader_len, okSteps,
                    dec_written, dec_ret, dec_read, dec_call >>
    /\ UNCHANGED << headerVars, initVars >>

\* ---------------------------------------------------------------------
\* StreamDecryption::decrypt_streams, applied to the bytes the encryption
\* side wrote
\* ---------------------------------------------------------------------
\* number of bytes the writer holds
RECURSIVE StreamLen(_)
StreamLen(w) == IF w = << >> THEN 0 ELSE Head(w).accepted + StreamLen(Tail(w))

\* the sealed blocks that occupy exactly the bytes [from, from + len) of the
\* written stream (none or one)
RECURSIVE WholeBlocksAt(_, _, _)
WholeBlocksAt(w, from, len) ==
    IF w = << >> THEN { }
    ELSE LET p == Head(w)
         IN  IF p.accepted = 0 THEN WholeBlocksAt(Tail(w), from, len)
             ELSE IF from = 0
                  THEN IF p.accepted = CtLen(p.data) /\ len = p.accepted
                       THEN { p.data } ELSE { }
             ELSE IF from >= p.accepted
                  THEN WholeBlocksAt(Tail(w), from - p.accepted, len)
             ELSE { }

\* DecryptorLE31::decrypt_next / decrypt_last at counter ctr on the bytes
\* [from, from + len): the payloads it returns (none when the tag is rejected)
OpenUnchecked(ctr, last, w, from, len) ==
    { b.payload : b \in WholeBlocksAt(w, from, len) }
Open(ctr, last, w, from, len) ==
    { b.payload : b \in { c \in WholeBlocksAt(w, from, len) :
                            c.key = "key" /\ c.position = ctr /\ c.last = last } }

\* the number of bytes decrypt_streams asks the reader for: the length of
\* vec![0u8; BLOCK_SIZE]
DecReadLen == BLOCK_SIZE

\* the write-count check of decrypt_streams
DecWriteMismatch(read_count, write_count) == read_count - 16 # write_count

DecryptStreamsOutcome(readOk, writeOk, full, flushOk) ==
    LET read_count == Min(StreamLen(written), DecReadLen)
        isNext     == read_count = BLOCK_SIZE
        opened     == Open(0, ~isNext, written, 0, read_count)
        noRead     == [ ret |-> "Io", written |-> << >>, benign |-> FALSE,
                        read |-> -1, call |-> "none" ]
        same       == [ noRead EXCEPT !.read = read_count,
                                      !.call = IF isNext THEN "next" ELSE "last" ]
    IN  IF ~readOk THEN noRead
        ELSE IF opened = { } THEN [ same EXCEPT !.ret = "Decrypt", !.benign = TRUE ]
        ELSE LET payload == CHOOSE x \in opened : TRUE
                 n       == IF full THEN ByteLen(payload)
                            ELSE IF ByteLen(payload) >= AEAD_TAG_LEN
                                 THEN ByteLen(payload) - AEAD_TAG_LEN ELSE 0
                 out     == [ same EXCEPT !.written = << [data |-> payload, accepted |-> n] >> ]
             IN  IF ~writeOk THEN same
                 ELSE IF DecWriteMismatch(read_count, n)
                 THEN [ out EXCEPT !.ret = "WriteMismatch", !.benign = full ]
                 ELSE IF ~flushOk THEN out
                 ELSE [ out EXCEPT !.ret = "Ok", !.benign = full ]

DecryptStreams ==
    /\ pc = "done"
    /\ \E readOk \in BOOLEAN, writeOk \in BOOLEAN, full \in BOOLEAN, flushOk \in BOOLEAN :
          LET o == DecryptStreamsOutcome(readOk, writeOk, full, flushOk)
          IN  /\ dec_ret' = o.ret
              /\ dec_written' = o.written
              /\ dec_read' = o.read
              /\ dec_call' = o.call
              /\ proto' = (proto /\ o.benign)
    /\ pc' = "decrypted"
    /\ UNCHANGED << file_size, total_step, current_step, reader_len, reader_pos, position,
                    written, read_buffer, calls, lastOp, ret, read_ok, nextCalls, lastCalls,
                    okSteps >>
    /\ UNCHANGED << headerVars, initVars >>

\* the plaintext bytes the writer of decrypt_streams holds
RECURSIVE Plain(_)
Plain(w) == IF w = << >> THEN << >> ELSE Take(Head(w).data, Head(w).accepted) \o Plain(Tail(w))


\* ---------------------------------------------------------------------
\* the one-shot stream functions on their own: encrypt_streams on a fresh
\* stream object, decrypt_streams on the output of encrypt_streams or on a
\* ciphertext body made under the same key and nonce
\* ---------------------------------------------------------------------
\* a sealed block written in full
Piece(block) == [data |-> block, accepted |-> CtLen(block)]

\* the body of a plaintext of len bytes cut into blocks of blockLen bytes:
\* encrypt_next for every full block, encrypt_last for the remainder
RECURSIVE Body(_, _, _)
Body(blockLen, len, i) ==
    IF len - i * blockLen >= blockLen
    THEN << Piece(Seal(i, FALSE, Pt(i * blockLen, blockLen))) >> \o Body(blockLen, len, i + 1)
    ELSE << Piece(Seal(i, TRUE, Pt(i * blockLen, len - i * blockLen))) >>

\* the body with block t altered in transit (t = 0: none): its tag no longer
\* verifies under the key
Tampered(body, t) ==
    [ i \in 1..Len(body) |->
        IF i = t THEN [body[i] EXCEPT !.data.key = "forged"] ELSE body[i] ]

\* block lengths of the bodies tried: the format of the file layout, and the
\* one whose non-final ciphertext blocks are BLOCK_SIZE bytes
BodyBlockLens == { BLOCK_SIZE, BLOCK_SIZE - AEAD_TAG_LEN }

\* plaintext lengths of the bodies tried
BodyLens ==
    { 0, 1, BLOCK_SIZE - 2 * AEAD_TAG_LEN, BLOCK_SIZE - AEAD_TAG_LEN - 1,
      BLOCK_SIZE - AEAD_TAG_LEN, BLOCK_SIZE - 1, BLOCK_SIZE, BLOCK_SIZE + 1,
      2 * BLOCK_SIZE + 17 }

Bodies ==
    { Tampered(Body(bl, len, 0), t) : bl \in BodyBlockLens, len \in BodyLens, t \in 0..2 }

\* a ciphertext body handed to decrypt_streams
BodyInit ==
    /\ written \in Bodies
    /\ pc = "done"
    /\ lastOp = "body"
    /\ file_size = 0
    /\ total_step = 0
    /\ current_step = 0
    /\ reader_len = 0
    /\ reader_pos = 0
    /\ position = 0
    /\ read_buffer = << >>
    /\ calls = 0
    /\ ret = "none"
    /\ read_ok = TRUE
    /\ nextCalls = 0
    /\ lastCalls = 0
    /\ okSteps = 0
    /\ proto = TRUE
    /\ dec_written = << >>
    /\ dec_ret = "none"
    /\ dec_read = -1
    /\ dec_call = "none"
    /\ HeaderIdle
    /\ InitIdle

StreamInit == Init \/ BodyInit

StreamNext == EncryptStreams \/ DecryptStreams

StreamSpec == StreamInit /\ [][StreamNext]_vars

\* no pump and no stream at hand
StreamIdle ==
    /\ file_size = 0
    /\ total_step = 0
    /\ current_step = 0
    /\ reader_len = 0
    /\ reader_pos = 0
    /\ position = 0
    /\ written = << >>
    /\ read_buffer = << >>
    /\ pc = "idle"
    /\ calls = 0
    /\ lastOp = "none"
    /\ ret = "none"
    /\ read_ok = TRUE
    /\ nextCalls = 0
    /\ lastCalls = 0
    /\ okSteps = 0
    /\ proto = TRUE
    /\ dec_written = << >>
    /\ dec_ret = "none"
    /\ dec_read = -1
    /\ dec_call = "none"

\* ---------------------------------------------------------------------
\* the file header codec (header/file.rs); bytes are integers 0..255
\* ---------------------------------------------------------------------
Algorithms == { "XChaCha20Poly1305", "Aes256Gcm" }

Modes == { "Stream", "Memory" }

\* primitives::HashingAlgorithm
HashingAlgorithms == { "Argon2id_Standard", "Argon2id_Paranoid" }

\* primitives::SALT_LEN
SALT_LEN == 16

\* primitives::ENCRYPTED_MASTER_KEY_LEN
ENCRYPTED_MASTER_KEY_LEN == 48

\* Algorithm::nonce_len (primitives)
NonceLen(algorithm, mode) ==
    IF algorithm = "XChaCha20Poly1305"
    THEN IF mode = "Stream" THEN 20 ELSE 24
    ELSE IF mode = "Stream" THEN 8 ELSE 12

\* vec![0u8; n]
ZeroBytes(n) == [ i \in 1..n |-> 0 ]

\* n bytes of value v
ConstBytes(n, v) == [ i \in 1..n |-> v ]

MAGIC_BYTES == << 8, 255, 85, 50, 88, 26 >>

FileHeaderVersionSerialize(version) == << 10, 1 >>

FileKeyslotVersionSerialize(version) == << 13, 1 >>

AlgorithmSerialize(algorithm) ==
    IF algorithm = "XChaCha20Poly1305" THEN << 11, 1 >> ELSE << 11, 2 >>

ModeSerialize(mode) == IF mode = "Stream" THEN << 12, 1 >> ELSE << 12, 2 >>

\* the padding after a keyslot nonce of n bytes: 26 - self.nonce.len()
KeyslotNoncePadAsHeader(n) == 24 - n
KeyslotNoncePad(n) == 26 - n

\* FileKeyslot::serialize
FileKeyslotSerialize(keyslot) ==
    FileKeyslotVersionSerialize(keyslot.version)
        \o AlgorithmSerialize(keyslot.algorithm)
        \o ModeSerialize(keyslot.mode)
        \o keyslot.salt
        \o keyslot.master_key
        \o keyslot.nonce
        \o ZeroBytes(KeyslotNoncePad(Len(keyslot.nonce)))

\* the padding after a body nonce of n bytes: 24 - self.nonce.len()
HeaderNoncePadNone(n) == 0
HeaderNoncePad(n) == 24 - n

\* the number of empty slots after k keyslots: 2 - self.keyslots.len()
EmptySlotsAlwaysTwo(k) == 2
EmptySlots(k) == 2 - k

\* the keyslots of the two loops of FileHeader::serialize, from slot i on
RECURSIVE KeyslotsSerialize(_, _)
KeyslotsSerialize(keyslots, i) ==
    IF i > Len(keyslots) THEN << >>
    ELSE FileKeyslotSerialize(keyslots[i]) \o KeyslotsSerialize(keyslots, i + 1)

RECURSIVE EmptySlotsSerialize(_)
EmptySlotsSerialize(k) ==
    IF k <= 0 THEN << >> ELSE ZeroBytes(96) \o EmptySlotsSerialize(k - 1)

\* FileHeader::serialize
FileHeaderSerialize(h) ==
    MAGIC_BYTES
        \o FileHeaderVersionSerialize(h.version)
        \o AlgorithmSerialize(h.algorithm)
        \o ModeSerialize(h.mode)
        \o h.nonce
        \o ZeroBytes(HeaderNoncePad(Len(h.nonce)))
        \o KeyslotsSerialize(h.keyslots, 1)
        \o EmptySlotsSerialize(EmptySlots(Len(h.keyslots)))

\* FileHeader::serialize on header
SerializeHeader ==
    /\ header_bytes = << >>
    /\ header_bytes' = FileHeaderSerialize(header)
    /\ keyslot_bytes' = [ i \in 1..Len(header.keyslots) |->
                            FileKeyslotSerialize(header.keyslots[i]) ]
    /\ UNCHANGED << header, other, other_bytes, streamVars, initVars >>

\* FileHeader::serialize on other
SerializeOther ==
    /\ other_bytes = << >>
    /\ other_bytes' = FileHeaderSerialize(other)
    /\ UNCHANGED << header, header_bytes, keyslot_bytes, other, streamVars, initVars >>

\* at most two keyslots drawn from a set
KeyslotSeqs(K) ==
    { << >> } \cup { << k >> : k \in K } \cup { << k1, k2 >> : k1 \in K, k2 \in K }

\* the nonce lengths of the two algorithms in the two modes
NonceLens == { 8, 12, 20, 24 }

\* headers with every combination of nonce lengths
SomeKeyslots ==
    { [version |-> "V1", algorithm |-> a, hashing_algorithm |-> "Argon2id_Standard",
       mode |-> "Memory", salt |-> ConstBytes(SALT_LEN, 161),
       nonce |-> ConstBytes(n, 162),
       master_key |-> ConstBytes(ENCRYPTED_MASTER_KEY_LEN, 163)] :
         a \in Algorithms, n \in NonceLens }

SomeHeaders ==
    { [version |-> "V1", algorithm |-> a, mode |-> m, nonce |-> ConstBytes(n, 164),
       keyslots |-> ks] :
         a \in Algorithms, m \in Modes, n \in NonceLens, ks \in KeyslotSeqs(SomeKeyslots) }

HeaderInit ==
    /\ header \in SomeHeaders
    /\ header_bytes = << >>
    /\ keyslot_bytes = << >>
    /\ other = NoHeader
    /\ other_bytes = << >>
    /\ StreamIdle
    /\ InitIdle

HeaderSpec == HeaderInit /\ [][SerializeHeader]_vars

\* well-formed keyslots: the nonce has the length nonce_len gives, and every
\* field takes two values
Keyslot(a, h, m, saltByte, nonceByte, keyByte) ==
    [version |-> "V1", algorithm |-> a, hashing_algorithm |-> h, mode |-> m,
     salt |-> ConstBytes(SALT_LEN, saltByte),
     nonce |-> ConstBytes(NonceLen(a, m), nonceByte),
     master_key |-> ConstBytes(ENCRYPTED_MASTER_KEY_LEN, keyByte)]

WellFormedKeyslots ==
    { Keyslot("XChaCha20Poly1305", "Argon2id_Standard", "Memory", 161, 162, 163),
      Keyslot("Aes256Gcm", "Argon2id_Standard", "Memory", 161, 162, 163),
      Keyslot("XChaCha20Poly1305", "Argon2id_Paranoid", "Memory", 161, 162, 163),
      Keyslot("XChaCha20Poly1305", "Argon2id_Standard", "Stream", 161, 162, 163),
      Keyslot("XChaCha20Poly1305", "Argon2id_Standard", "Memory", 177, 162, 163),
      Keyslot("XChaCha20Poly1305", "Argon2id_Standard", "Memory", 161, 178, 163),
      Keyslot("XChaCha20Poly1305", "Argon2id_Standard", "Memory", 161, 162, 179) }

WellFormedHeaders ==
    { [version |-> "V1", algorithm |-> am[1], mode |-> am[2],
       nonce |-> ConstBytes(NonceLen(am[1], am[2]), am[3]), keyslots |-> ks] :
         am \in { << "XChaCha20Poly1305", "Stream", 164 >>, << "Aes256Gcm", "Stream", 164 >>,
                  << "XChaCha20Poly1305", "Memory", 164 >>, << "XChaCha20Poly1305", "Stream", 180 >> },
         ks \in KeyslotSeqs(WellFormedKeyslots) }

PairInit ==
    /\ header \in WellFormedHeaders
    /\ other \in WellFormedHeaders
    /\ header_bytes = << >>
    /\ keyslot_bytes = << >>
    /\ other_bytes = << >>
    /\ StreamIdle
    /\ InitIdle

PairNext == SerializeHeader \/ SerializeOther

PairSpec == PairInit /\ [][PairNext]_vars

\* ---------------------------------------------------------------------
\* StreamEncryption::init / StreamDecryption::init
\* ---------------------------------------------------------------------
\* longest nonce handed to init
MaxNonceLen == 32

\* the length check of init
NonceLengthMismatchOnlyShort(len, algorithm) == len < NonceLen(algorithm, "Stream")
NonceLengthMismatch(len, algorithm) == len # NonceLen(algorithm, "Stream")

\* the variant of the stream object init builds for an algorithm
StreamVariant(kind, algorithm) == << kind, algorithm >>

InitOutcome(kind, len, algorithm) ==
    IF NonceLengthMismatch(len, algorithm)
    THEN [ ret |-> "NonceLengthMismatch", obj |-> << >> ]
    ELSE [ ret |-> "Ok", obj |-> StreamVariant(kind, algorithm) ]

StreamEncryptionInit ==
    /\ init_ret = "none"
    /\ LET o == InitOutcome("StreamEncryption", init_nonce_len, init_algorithm)
       IN  /\ init_ret' = o.ret
           /\ init_obj' = o.obj
    /\ UNCHANGED << init_algorithm, init_nonce_len, streamVars, headerVars >>

StreamDecryptionInit ==
    /\ init_ret = "none"
    /\ LET o == InitOutcome("StreamDecryption", init_nonce_len, init_algorithm)
       IN  /\ init_ret' = o.ret
           /\ init_obj' = o.obj
    /\ UNCHANGED << init_algorithm, init_nonce_len, streamVars, headerVars >>

NonceInit ==
    /\ init_algorithm \in Algorithms
    /\ init_nonce_len \in 0..MaxNonceLen
    /\ init_ret = "none"
    /\ init_obj = << >>
    /\ StreamIdle
    /\ HeaderIdle

NonceNext == StreamEncryptionInit \/ StreamDecryptionInit

NonceSpec == NonceInit /\ [][NonceNext]_vars

Next == Step \/ Finalize \/ EncryptStreams \/ DecryptStreams

Spec == Init /\ [][Next]_vars

\* ---------------------------------------------------------------------
\* properties
\* ---------------------------------------------------------------------
\* a call of step / finalize is taken in this step of the behaviour
StepCalled == calls' = calls + 1 /\ lastOp' = "step"
FinalizeCalled == calls' = calls + 1 /\ lastOp' = "finalize"

\* the last entry of the writer
LastWritten(w) == w[Len(w)]

\* C1: in every reachable state of the pump 0 <= current_step <= total_step,
\* and no step moves current_step past total_step.
C1_StepWithinTotal ==
    /\ 0 <= current_step
    /\ current_step <= total_step

\* a step has brought current_step up to a non-zero total_step
C1_Witness ==
    /\ lastOp = "step"
    /\ ret = "Ok"
    /\ total_step > 0
    /\ current_step = total_step

\* C2: with the reader holding exactly file_size bytes, no AEAD failure and a
\* writer that accepts every byte, the caller that follows get_step_type gets
\* Ok from every step and finalize, and total_step steps have succeeded when
\* finalize returns.
C2_ProtocolSucceeds ==
    (proto /\ reader_len = file_size /\ lastOp \in { "step", "finalize" } /\ pc # "decrypted")
        => /\ ret = "Ok"
           /\ (lastOp = "finalize" => okSteps = total_step)

\* C3: step called at current_step = total_step and finalize called at
\* current_step < total_step make no AEAD call, write nothing, leave
\* current_step alone and, the read having succeeded, return IncorrectStep.
C3_WrongCallRejected ==
    [][ /\ (StepCalled /\ current_step = total_step)
            => /\ read_ok' => ret' = "IncorrectStep"
               /\ nextCalls' = nextCalls /\ lastCalls' = lastCalls
               /\ position' = position
               /\ written' = written
               /\ current_step' = current_step
        /\ (FinalizeCalled /\ current_step < total_step)
            => /\ read_ok' => ret' = "IncorrectStep"
               /\ nextCalls' = nextCalls /\ lastCalls' = lastCalls
               /\ position' = position
               /\ written' = written
               /\ current_step' = current_step ]_vars

\* step was called with a full block available although current_step had
\* reached total_step, and was rejected
C3_Witness ==
    /\ lastOp = "step"
    /\ read_ok
    /\ ret = "IncorrectStep"
    /\ current_step = total_step
    /\ reader_pos >= BLOCK_SIZE

\* C4: step and finalize return WriteMismatch exactly when the writer accepted
\* a byte count different from the length of the block the AEAD returned.
C4_WriteMismatchIffShortWrite ==
    [][ ((StepCalled \/ FinalizeCalled) /\ Len(written') = Len(written) + 1)
            => ((ret' = "WriteMismatch")
                  <=> (LastWritten(written').accepted # CtLen(LastWritten(written').data))) ]_vars

\* C5: the block finalize writes is sealed from the n trailing bytes it read
\* and is n + 16 bytes long.
C5_FinalBlockIsTrailingBytes ==
    [][ (FinalizeCalled /\ Len(written') = Len(written) + 1)
            => /\ LastWritten(written').data.payload = Pt(reader_pos, ReadCount)
               /\ CtLen(LastWritten(written').data) = ReadCount + AEAD_TAG_LEN ]_vars

\* C6 (as claimed): a step that reads fewer than BLOCK_SIZE bytes while
\* current_step < total_step returns ReadUnderflow.
C6_ShortReadIsReadUnderflow ==
    [][ (StepCalled /\ read_ok' /\ ReadCount < BLOCK_SIZE /\ current_step < total_step)
            => ret' = "ReadUnderflow" ]_vars

\* C6 (amended): a step that reads fewer than BLOCK_SIZE bytes while
\* current_step < total_step returns IncorrectStep, the same kind as a call in
\* the wrong order, and encrypts and writes nothing.
C6_ShortReadIsIncorrectStep ==
    [][ (StepCalled /\ read_ok' /\ ReadCount < BLOCK_SIZE /\ current_step < total_step)
            => /\ ret' = "IncorrectStep"
               /\ nextCalls' = nextCalls
               /\ written' = written
               /\ current_step' = current_step ]_vars

\* a step came up short of a block before total_step was reached
C6_Witness ==
    /\ lastOp = "step"
    /\ read_ok
    /\ ret = "IncorrectStep"
    /\ current_step < total_step
    /\ reader_pos = reader_len

\* C7: total_step is the exact integer ceiling of file_size / BLOCK_SIZE.
C7_TotalStepIsExactCeiling ==
    total_step = CeilDiv(file_size, BLOCK_SIZE)

\* C8: while the pump lives, current_step equals the STREAM counter (the
\* number of blocks encrypt_next has sealed) and the number of blocks written.
C8_StepCountsBlocks ==
    lastOp \in { "new", "step" }
        => /\ current_step = position
           /\ current_step = Len(written)

\* C9: when step or finalize returns after a successful read, the buffer the
\* plaintext was read into holds no plaintext.
C9_BufferZeroedOnReturn ==
    (lastOp \in { "step", "finalize" } /\ read_ok) => ~HoldsPlaintext(read_buffer)

\* C10: the body round trip: what decrypt_streams writes from the output of
\* the encryption side is the original plaintext, and it returns Ok.
C10_RoundTrip ==
    (pc = "decrypted" /\ proto /\ reader_len = file_size)
        => /\ dec_ret = "Ok"
           /\ Plain(dec_written) = Pt(0, file_size)

\* the chunk decrypt_streams read is a whole block sealed under the key at
\* counter 0 with the flag of the call made on it
ChunkAuthentic ==
    \E b \in WholeBlocksAt(written, 0, dec_read) :
        b.key = "key" /\ b.position = 0 /\ b.last = (dec_call = "last")

\* C11: when decrypt_streams (encrypt_streams) returns Ok the whole input has
\* been read and the AEAD call made last was decrypt_last (encrypt_last),
\* after one next call per full block.
C11_OkMeansLastCall ==
    /\ (pc = "decrypted" /\ dec_ret = "Ok")
          => /\ dec_call = "last"
             /\ dec_read = StreamLen(written)
    /\ (lastOp = "encrypt_streams" /\ ret = "Ok")
          => /\ lastCalls = 1
             /\ nextCalls = reader_len \div BLOCK_SIZE
             /\ reader_pos = reader_len

\* C12: when the AEAD rejects the chunk, decrypt_streams returns Decrypt and
\* its writer holds nothing; whatever the writer holds is the payload of a
\* block sealed under the key.
C12_RejectedBlockWritesNothing ==
    (pc = "decrypted" /\ dec_read >= 0)
        => /\ ~ChunkAuthentic => (dec_ret = "Decrypt" /\ dec_written = << >>)
           /\ \A i \in 1..Len(dec_written) :
                 \E j \in 1..Len(written) :
                     /\ written[j].data.key = "key"
                     /\ written[j].data.payload = dec_written[i].data

\* decrypt_streams read a whole block that had been altered and rejected it
C12_Witness ==
    /\ pc = "decrypted"
    /\ written # << >>
    /\ written[1].data.key = "forged"
    /\ dec_read = written[1].accepted
    /\ dec_ret = "Decrypt"
    /\ dec_written = << >>

\* C18: decrypt_streams calls decrypt_next only on a chunk of
\* BLOCK_SIZE + 16 bytes, which yields BLOCK_SIZE plaintext bytes.
C18_NextChunkIsBlockPlusTag ==
    (pc = "decrypted" /\ dec_call = "next")
        => /\ dec_read = BLOCK_SIZE + AEAD_TAG_LEN
           /\ dec_ret = "Ok" => ByteLen(Plain(dec_written)) = BLOCK_SIZE

\* C19: encrypt_streams returns WriteMismatch exactly when the writer accepted
\* a count different from the length of the sealed block, decrypt_streams
\* exactly when it accepted a count different from the bytes read - 16.
C19_StreamsWriteMismatch ==
    /\ (lastOp = "encrypt_streams" /\ Len(written) = 1)
          => ((ret = "WriteMismatch") <=> (written[1].accepted # CtLen(written[1].data)))
    /\ (pc = "decrypted" /\ Len(dec_written) = 1)
          => ((dec_ret = "WriteMismatch") <=> (dec_written[1].accepted # dec_read - AEAD_TAG_LEN))

\* the bytes at offsets from..to-1 of b
Slice(b, from, to) == SubSeq(b, from + 1, to)

AllZero(b) == \A i \in 1..Len(b) : b[i] = 0

\* the tags of the file layout
AlgorithmTag(algorithm) ==
    CASE algorithm = "XChaCha20Poly1305" -> << 11, 1 >>
      [] algorithm = "Aes256Gcm" -> << 11, 2 >>

ModeTag(mode) ==
    CASE mode = "Stream" -> << 12, 1 >>
      [] mode = "Memory" -> << 12, 2 >>

\* C13: FileHeader::serialize returns exactly 228 bytes for 0, 1 or 2
\* keyslots and nonces of 8, 12, 20 or 24 bytes.
C13_HeaderIs228Bytes ==
    header_bytes # << >> => Len(header_bytes) = 228

\* a header with one keyslot and nonces of different lengths was serialized
C13_Witness ==
    /\ header_bytes # << >>
    /\ Len(header.nonce) = 8
    /\ Len(header.keyslots) = 1
    /\ Len(header.keyslots[1].nonce) = 24

\* C14: the serialized header is magic, version, algorithm, mode, the nonce
\* zero-padded to offset 36, keyslot[0] at 36..132 and keyslot[1] at 132..228,
\* an unused slot being 96 zero bytes.
C14_HeaderLayout ==
    header_bytes # << >> =>
        LET n == Len(header.nonce)
            k == Len(header.keyslots)
        IN  /\ Slice(header_bytes, 0, 6) = << 8, 255, 85, 50, 88, 26 >>
            /\ Slice(header_bytes, 6, 8) = << 10, 1 >>
            /\ Slice(header_bytes, 8, 10) = AlgorithmTag(header.algorithm)
            /\ Slice(header_bytes, 10, 12) = ModeTag(header.mode)
            /\ Slice(header_bytes, 12, 12 + n) = header.nonce
            /\ AllZero(Slice(header_bytes, 12 + n, 36))
            /\ IF k >= 1 THEN Slice(header_bytes, 36, 132) = keyslot_bytes[1]
                         ELSE AllZero(Slice(header_bytes, 36, 132))
            /\ IF k >= 2 THEN Slice(header_bytes, 132, 228) = keyslot_bytes[2]
                         ELSE AllZero(Slice(header_bytes, 132, 228))
            /\ Len(Slice(header_bytes, 132, 228)) = 96

\* a header with one occupied slot and a short nonce was serialized
C14_Witness ==
    /\ header_bytes # << >>
    /\ Len(header.keyslots) = 1
    /\ Len(header.nonce) = 12
    /\ AllZero(Slice(header_bytes, 132, 228))

\* C15: FileKeyslot::serialize returns 96 bytes: version, algorithm, mode,
\* salt at 6..22, encrypted master key at 22..70, the nonce at 70..70+n and
\* zeros up to 96.
C15_KeyslotLayout ==
    \A i \in 1..Len(keyslot_bytes) :
        LET b == keyslot_bytes[i]
            slot == header.keyslots[i]
            n == Len(slot.nonce)
        IN  /\ Len(b) = 96
            /\ Slice(b, 0, 2) = << 13, 1 >>
            /\ Slice(b, 2, 4) = AlgorithmTag(slot.algorithm)
            /\ Slice(b, 4, 6) = ModeTag(slot.mode)
            /\ Slice(b, 6, 22) = slot.salt
            /\ Slice(b, 22, 70) = slot.master_key
            /\ Slice(b, 70, 70 + n) = slot.nonce
            /\ AllZero(Slice(b, 70 + n, 96))

\* two keyslots with nonces of 8 and 24 bytes were serialized
C15_Witness ==
    /\ Len(keyslot_bytes) = 2
    /\ Len(header.keyslots[1].nonce) = 8
    /\ Len(header.keyslots[2].nonce) = 24

StreamNonceLen(algorithm) ==
    CASE algorithm = "XChaCha20Poly1305" -> 20
      [] algorithm = "Aes256Gcm" -> 8

\* C17: init returns NonceLengthMismatch, and builds no stream object, exactly
\* when the nonce length differs from 20 (XChaCha20Poly1305) or 8
\* (AES-256-GCM); otherwise it returns the stream object of the algorithm.
C17_InitChecksNonceLength ==
    init_ret # "none" =>
        /\ (init_ret = "NonceLengthMismatch") <=> (init_nonce_len # StreamNonceLen(init_algorithm))
        /\ init_ret = "NonceLengthMismatch" => init_obj = << >>
        /\ init_ret # "NonceLengthMismatch"
              => /\ init_ret = "Ok"
                 /\ init_obj \in { << "StreamEncryption", init_algorithm >>,
                                   << "StreamDecryption", init_algorithm >> }

\* init was called with a nonce one byte too long and refused it
C17_Witness ==
    /\ init_ret = "NonceLengthMismatch"
    /\ init_nonce_len = StreamNonceLen(init_algorithm) + 1
    /\ init_obj = << >>

\* C20: encrypt_last is called at most once on the cipher state of a pump,
\* and once finalize has been called no call is made on the pump and no AEAD
\* call on its cipher state; nothing more is written.
C20_NothingAfterFinalize ==
    [][ /\ lastCalls' <= 1
        /\ lastOp = "finalize"
              => /\ calls' = calls
                 /\ lastOp' = lastOp
                 /\ nextCalls' = nextCalls
                 /\ lastCalls' = lastCalls
                 /\ position' = position
                 /\ written' = written ]_vars

\* finalize emitted the terminal block after a step and the body was then
\* handed on
C20_Witness ==
    /\ lastOp = "finalize"
    /\ lastCalls = 1
    /\ nextCalls >= 1
    /\ pc = "decrypted"

\* C21: a step call that returns IncorrectStep leaves the pump as it was:
\* the counters, the cipher state, the writer and the reader position are
\* unchanged, so no plaintext byte is consumed by the rejected call.
C21_RejectedStepConsumesNothing ==
    [][ (StepCalled /\ ret' = "IncorrectStep")
            => /\ current_step' = current_step
               /\ total_step' = total_step
               /\ position' = position
               /\ nextCalls' = nextCalls
               /\ written' = written
               /\ reader_pos' = reader_pos ]_vars

====
